---- MODULE Spec2Model ----
(***************************************************************************)
(* Haldane-model band structure tools (cphys/Haldane-Model).               *)
(*                                                                         *)
(*   functions.py            haldaneModel, spectrum, hamiltonian_array     *)
(*   graphineHaldaneModel.py band sweep over the onsite energy (pool)      *)
(*   berryCurve.py           Berry curvature sweep over the onsite energy  *)
(*                                                                         *)
(* Numbers are integers: a momentum or parameter value n stands for n      *)
(* grid units, np.linspace(a, b, n) is the strictly increasing sequence    *)
(* of its n sample indices.  Python values are tagged records, because a   *)
(* field of the parameter bundle is a scalar or a sequence.                *)
(***************************************************************************)
EXTENDS Integers, Sequences, FiniteSets, TLC

\* Longest swept sequence drawn as an input.
MaxLen == 2

----------------------------------------------------------------------------
(* Python values *)

Scalar(n) == [kind |-> "scalar", val |-> <<n>>]
SeqVal(s) == [kind |-> "seq", val |-> s]
NoneVal == [kind |-> "none", val |-> <<>>]

\* isinstance(value, collections.Iterable)
IsIterable(v) == v.kind = "seq"

\* the sequence a, a+1, ..., a+L-1
Ramp(a, L) == SeqVal([i \in 1..L |-> a + i - 1])

\* np.linspace(-np.pi, np.pi, res): res strictly increasing samples
Linspace(res) == SeqVal([i \in 1..res |-> i - 1])

\* truth value of a Python number
Truthy(n) == n # 0

----------------------------------------------------------------------------
(* Names and their order: sorted() compares str by code point *)

Chars(name) ==
    CASE name = "k_x" -> <<107, 95, 120>>
      [] name = "k_y" -> <<107, 95, 121>>
      [] name = "k_z" -> <<107, 95, 122>>
      [] name = "m"   -> <<109>>
      [] name = "t"   -> <<116>>

RECURSIVE LexLess(_, _)
LexLess(a, b) ==
    IF b = <<>> THEN FALSE
    ELSE IF a = <<>> THEN TRUE
    ELSE IF Head(a) # Head(b) THEN Head(a) < Head(b)
    ELSE LexLess(Tail(a), Tail(b))

\* the names of S in the order the bundle and the momenta put them in a dict
InsertionOrder(S) ==
    SelectSeq(<<"t", "m", "k_x", "k_y", "k_z">>, LAMBDA n : n \in S)

RECURSIVE SortedNames(_)
SortedNames(S) ==
    IF S = {} THEN <<>>
    ELSE LET least == CHOOSE n \in S :
                          \A o \in S \ {n} : LexLess(Chars(n), Chars(o))
         IN  <<least>> \o SortedNames(S \ {least})

MomentumNames == <<"k_x", "k_y", "k_z">>


----------------------------------------------------------------------------
(* Systems: what hamiltonian_array reads of a kwant Builder.  periods are  *)
(* the retained translation vectors in units of (1/2, sqrt(3)/2); norbs is *)
(* the number of sites of the unit cell, the size of the matrix.           *)

FiniteSystem == [periods |-> <<>>, norbs |-> 4]
ZigzagRibbon == [periods |-> << <<2, 0>> >>, norbs |-> 4]
ArmchairRibbon == [periods |-> << <<0, 2>> >>, norbs |-> 4]
Bulk == [periods |-> << <<2, 0>>, <<1, 1>> >>, norbs |-> 2]

Systems == {FiniteSystem, ZigzagRibbon, ArmchairRibbon, Bulk}

\* syst.symmetry.num_directions
NumDirections(s) == Len(s.periods)

Dot(a, b) == a[1] * b[1] + a[2] * b[2]

DomainError == "ValueError: Dispersion is 1D, but more momenta are provided."
NameConflictError == "RuntimeError: One of the system parameters is reserved for momentum."
IndexError == "IndexError: list index out of range"
ZeroDError == "ValueError: A 0D plot requested"
DimensionalityError == "ValueError: Cannot make 4D plots yet."
UnboundLocalError == "UnboundLocalError: local variable 'energies' referenced before assignment"

\* momentum_to_lattice without the check of the extra momenta
MomentumToLatticeUnchecked(s, k) ==
    IF NumDirections(s) = 0 THEN [err |-> "", k |-> <<>>]
    ELSE IF Len(s.periods) = 1 THEN [err |-> "", k |-> <<k[1]>>]
    ELSE [err |-> "",
          k |-> [i \in 1..Len(s.periods) |-> Dot(s.periods[i], SubSeq(k, 1, 2))]]

\* momentum_to_lattice(k), k = [k_x, k_y, k_z] of numbers
MomentumToLattice(s, k) ==
    IF NumDirections(s) = 0 THEN [err |-> "", k |-> <<>>]
    ELSE IF Len(s.periods) = 1
         THEN IF \E i \in (NumDirections(s) + 1)..Len(k) : Truthy(k[i])
              THEN [err |-> DomainError, k |-> <<>>]
              ELSE [err |-> "", k |-> <<k[1]>>]
         \* the periods of a bulk system are a square full-rank basis: lstsq
         \* solves A x = k exactly (x = B^T k) and returns no residual
         ELSE [err |-> "",
               k |-> [i \in 1..Len(s.periods) |-> Dot(s.periods[i], SubSeq(k, 1, 2))]]

\* syst.hamiltonian_submatrix([pars] + k): the matrix, named by what the
\* value functions read (onsite +-p.m, hopping p.t) and the lattice momentum
HamiltonianSubmatrix(s, d, lk) == [m |-> d["m"], t |-> d["t"], k |-> lk]

\* list(array.shape) of one matrix
MatrixShape(s) == <<s.norbs, s.norbs>>

----------------------------------------------------------------------------
(* The heap: the caller's bundle p and the copy hamiltonian_array makes *)

PRef == 1
FreshRef == 2

\* pars = p: no copy
AliasTarget(ref) == ref

\* copy(p): the reference of the new object
CopyTarget(ref) == FreshRef

\* no parameter field is taken as swept
ParamChangingNone(d) == {}

\* the bundle's fields that are sequences (lines 323-326)
ParamChanging(d) == {key \in DOMAIN d : IsIterable(d[key])}

\* lines 328-334: momenta in order; a name already in changing raises
RECURSIVE MomentaLoop(_, _, _)
MomentaLoop(i, changing, k) ==
    IF i > Len(MomentumNames) THEN [err |-> "", changing |-> changing]
    ELSE IF MomentumNames[i] \in DOMAIN changing
         THEN [err |-> NameConflictError, changing |-> changing]
         ELSE IF IsIterable(k[i])
              THEN MomentaLoop(i + 1, (MomentumNames[i] :> k[i].val) @@ changing, k)
              ELSE MomentaLoop(i + 1, changing, k)

\* the first sequence varies fastest
RECURSIVE ProductFirstFastest(_)
ProductFirstFastest(values) ==
    IF values = <<>> THEN << <<>> >>
    ELSE LET rest == ProductFirstFastest(Tail(values))
             h == Head(values)
             n == Len(h)
         IN  [i \in 1..(n * Len(rest)) |->
                 <<h[((i - 1) % n) + 1]>> \o rest[((i - 1) \div n) + 1]]

\* itertools.product(*values): the last sequence varies fastest
RECURSIVE Product(_)
Product(values) ==
    IF values = <<>> THEN << <<>> >>
    ELSE LET rest == Product(Tail(values))
             h == Head(values)
             n == Len(rest)
         IN  [i \in 1..(Len(h) * n) |->
                 <<h[((i - 1) \div n) + 1]>> \o rest[((i - 1) % n) + 1]]

\* position of a name in a sequence of names, 0 when absent
IndexOf(names, n) ==
    IF \E j \in 1..Len(names) : names[j] = n
    THEN CHOOSE j \in 1..Len(names) : names[j] = n
    ELSE 0

\* pars.__dict__.update(values), values = dict(zip(names, value))
DictUpdate(d, names, value) ==
    [n \in DOMAIN d \cup {names[j] : j \in 1..Len(names)} |->
        IF IndexOf(names, n) # 0 THEN Scalar(value[IndexOf(names, n)]) ELSE d[n]]

\* [values.get('k_x', k_x), values.get('k_y', k_y), values.get('k_z', k_z)]
PointMomentum(names, value, k) ==
    [i \in 1..Len(MomentumNames) |->
        IF IndexOf(names, MomentumNames[i]) # 0
        THEN value[IndexOf(names, MomentumNames[i])]
        ELSE k[i].val[1]]

Raised(msg) ==
    [status |-> "raised", err |-> msg, shape |-> <<>>, data |-> <<>>, variables |-> <<>>]
Returned(shape, data, variables) ==
    [status |-> "ok", err |-> "", shape |-> shape, data |-> data, variables |-> variables]
NoResult ==
    [status |-> "none", err |-> "", shape |-> <<>>, data |-> <<>>, variables |-> <<>>]


----------------------------------------------------------------------------
(* State of one call of hamiltonian_array, directly or through spectrum *)

VARIABLES
    entry,            \* the function the caller called
    syst,             \* the system
    p_in,             \* the fields of the caller's bundle when the call was made
    k_in,             \* <<k_x, k_y, k_z>> as the caller gave them
    return_energies,  \* spectrum's flag
    objs,             \* heap: reference -> fields of a SimpleNamespace
    pars,             \* hamiltonian_array's reference pars
    k_args,           \* <<k_x, k_y, k_z>> as hamiltonian_array receives them
    variables,        \* list(zip(names, values)) of the swept axes
    points,           \* itertools.product(*values), as a list
    idx,              \* position of the list comprehension in points
    hamiltonians,     \* the matrices evaluated so far
    pc,               \* position of the call
    result,           \* what hamiltonian_array returned or raised
    sresult           \* what spectrum returned or raised

callVars == <<entry, syst, p_in, k_in, return_energies, objs, pars, k_args,
              variables, points, idx, hamiltonians, pc, result, sresult>>

inputs == <<entry, syst, p_in, k_in, return_energies>>

\* haldaneModel(w, boundary, pVecs, bAtoms)
VARIABLES
    boundary,         \* 'zigzag', 'armchair' or any other string
    pVecs,            \* primitive vectors
    bAtoms,           \* coordinates of the basis atoms
    hm_pc,            \* position in haldaneModel
    hm_i,             \* iVec or iAtomCoord, from 1
    lat,              \* kwant.lattice.general(pVecs, bAtoms), once made
    builder,          \* the kwant.Builder, once made
    hm_err            \* the exception raised, "" when none

builderVars == <<boundary, pVecs, bAtoms, hm_pc, hm_i, lat, builder, hm_err>>

\* the sweep scripts: a pool of workers over the onsite energies
VARIABLES
    pipeline,         \* "bands" (graphineHaldaneModel.py) or "berry" (berryCurve.py)
    mus,              \* np.linspace(muRangeMin, muRangeMax, muResolution)
    kres,             \* kResolution, the length of the momentum grid k
    main_pc,          \* position of the parent process
    tasks,            \* positions of mus not yet handed to a worker
    wpc,              \* position of each pool process
    wtask,            \* position in mus of the value a pool process works on
    wdata,            \* shape of the array a pool process holds
    completed,        \* positions of mus whose call of paralelFunc returned
    files,            \* path -> shape of the array written there
    writes            \* <<position in mus, path>> of every np.savetxt so far

poolVars == <<pipeline, mus, kres, main_pc, tasks, wpc, wtask, wdata,
              completed, files, writes>>

vars == <<callVars, builderVars, poolVars>>

\* values a caller gives the fields m and t
ParamM == {Scalar(1)} \cup {Ramp(0, L) : L \in 0..MaxLen}
ParamT == {Scalar(1), Ramp(1, MaxLen)}
\* a further field of the bundle, possibly under a momentum name
ExtraFields ==
    {<<>>} \cup {n :> v : n \in {"k_x", "k_y", "k_z"}, v \in {Scalar(1), Ramp(0, 1)}}
Bundles ==
    {("m" :> m) @@ ("t" :> t) @@ e : m \in ParamM, t \in ParamT, e \in ExtraFields}

MomentaX == {Scalar(1)} \cup {Ramp(0, L) : L \in 0..MaxLen}
MomentaY == {Scalar(0), Scalar(1)} \cup {Ramp(0, L) : L \in 1..MaxLen}
MomentaZ == {Scalar(0), Scalar(1), Ramp(1, 1)}

CallInit ==
    /\ entry \in {"hamiltonian_array", "spectrum"}
    /\ syst \in Systems
    /\ p_in \in Bundles
    /\ return_energies \in BOOLEAN
    /\ entry = "hamiltonian_array" => return_energies = FALSE
    /\ k_in \in IF entry = "spectrum"
                THEN (MomentaX \cup {NoneVal}) \X (MomentaY \cup {NoneVal})
                         \X {NoneVal, Scalar(1)}
                ELSE MomentaX \X MomentaY \X MomentaZ
    /\ objs = [r \in {PRef} |-> p_in]
    /\ pars = PRef
    /\ k_args = k_in
    /\ variables = <<>>
    /\ points = <<>>
    /\ idx = 1
    /\ hamiltonians = <<>>
    /\ pc = IF entry = "spectrum" THEN "spectrum" ELSE "hamiltonian_array"
    /\ result = NoResult
    /\ sresult = NoResult

\* spectrum, lines 136-145: default and unused momenta, then the call
SpectrumCall ==
    /\ pc = "spectrum"
    /\ LET dimensionality == NumDirections(syst)
           k1 == [j \in 1..3 |-> IF k_in[j] = NoneVal THEN Linspace(MaxLen) ELSE k_in[j]]
           k2 == [j \in 1..3 |-> IF j - 1 < dimensionality THEN k1[j] ELSE Scalar(0)]
       IN  k_args' = k2
    /\ pc' = "hamiltonian_array"
    /\ UNCHANGED <<builderVars, poolVars, inputs, objs, pars, variables, points, idx, hamiltonians,
                   result, sresult>>

\* hamiltonian_array, lines 293-343 and 352
HamiltonianArrayBegin ==
    /\ pc = "hamiltonian_array"
    /\ LET target == CopyTarget(PRef)
           heap == (target :> objs[PRef]) @@ objs
           d == heap[target]
           changing0 == [key \in ParamChanging(d) |-> d[key].val]
           loop == MomentaLoop(1, changing0, k_args)
           changing == loop.changing
           names == SortedNames(DOMAIN changing)
           values == [j \in 1..Len(names) |-> changing[names[j]]]
           ml == MomentumToLattice(syst, [i \in 1..3 |-> k_args[i].val[1]])
       IN  /\ objs' = heap
           /\ pars' = target
           /\ IF loop.err # ""
              THEN /\ result' = Raised(loop.err)
                   /\ pc' = "raised"
                   /\ UNCHANGED <<variables, points, hamiltonians>>
              ELSE IF DOMAIN changing = {}
              THEN /\ UNCHANGED <<variables, points>>
                   /\ IF ml.err # ""
                      THEN /\ result' = Raised(ml.err)
                           /\ pc' = "raised"
                           /\ UNCHANGED hamiltonians
                      ELSE /\ hamiltonians' = <<HamiltonianSubmatrix(syst, d, ml.k)>>
                           /\ result' = Returned(<<1>> \o MatrixShape(syst),
                                                 hamiltonians', <<>>)
                           /\ pc' = "returned"
              ELSE /\ variables' = [j \in 1..Len(names) |-> <<names[j], values[j]>>]
                   /\ points' = Product(values)
                   /\ pc' = "loop"
                   /\ UNCHANGED <<result, hamiltonians>>
    /\ UNCHANGED <<builderVars, poolVars, inputs, k_args, idx, sresult>>

\* one element of the list comprehension, lines 353-354: hamiltonian(**values)
HamiltonianPoint ==
    /\ pc = "loop"
    /\ idx <= Len(points)
    /\ LET names == [j \in 1..Len(variables) |-> variables[j][1]]
           d == DictUpdate(objs[pars], names, points[idx])
           ml == MomentumToLattice(syst, PointMomentum(names, points[idx], k_args))
       IN  /\ objs' = [objs EXCEPT ![pars] = d]
           /\ IF ml.err # ""
              THEN /\ result' = Raised(ml.err)
                   /\ pc' = "raised"
                   /\ UNCHANGED <<hamiltonians, idx>>
              ELSE /\ hamiltonians' =
                          Append(hamiltonians, HamiltonianSubmatrix(syst, d, ml.k))
                   /\ idx' = idx + 1
                   /\ UNCHANGED <<result, pc>>
    /\ UNCHANGED <<builderVars, poolVars, inputs, pars, k_args, variables, points, sresult>>

\* lines 355-363: the shape of the first matrix, then the reshape
HamiltonianArrayEnd ==
    /\ pc = "loop"
    /\ idx > Len(points)
    /\ IF hamiltonians = <<>>
       THEN /\ result' = Raised(IndexError)
            /\ pc' = "raised"
       ELSE /\ result' = Returned([j \in 1..Len(variables) |-> Len(variables[j][2])]
                                      \o MatrixShape(syst),
                                  hamiltonians, variables)
            /\ pc' = "returned"
    /\ UNCHANGED <<builderVars, poolVars, inputs, objs, pars, k_args, variables, points, idx,
                   hamiltonians, sresult>>


----------------------------------------------------------------------------
(* spectrum, after hamiltonian_array returned *)

SRaised(msg) == [status |-> "raised", err |-> msg, kind |-> "", shape |-> <<>>]
SReturned(kind, shape) == [status |-> "ok", err |-> "", kind |-> kind, shape |-> shape]

\* np.linalg.eigvalsh over the last two axes: one axis of eigenvalues
EigvalshShape(shape) == SubSeq(shape, 1, Len(shape) - 1)

\* a 0D request answered with the eigenvalues of the single matrix
SpectrumOutcomeZeroD(r, energiesOnly) ==
    IF Len(r.variables) = 0 THEN SReturned("energies", EigvalshShape(r.shape))
    ELSE IF energiesOnly
         THEN IF Len(r.variables) \in {1, 2}
              THEN SReturned("energies", EigvalshShape(r.shape))
              ELSE SRaised(UnboundLocalError)
    ELSE IF Len(r.variables) = 1 THEN SReturned("plot1d", EigvalshShape(r.shape))
    ELSE IF Len(r.variables) = 2 THEN SReturned("plot2d", EigvalshShape(r.shape))
    ELSE SRaised(DimensionalityError)

\* lines 148-249, r the (hamiltonians, variables) hamiltonian_array returned
SpectrumOutcome(r, energiesOnly) ==
    LET n == Len(r.variables)
        \* line 148: energies is bound only for 1 or 2 swept axes
        bound == n \in {1, 2}
    IN  IF n = 0 THEN SRaised(ZeroDError)
        ELSE IF energiesOnly
             THEN IF bound THEN SReturned("energies", EigvalshShape(r.shape))
                  ELSE SRaised(UnboundLocalError)
        ELSE IF n = 1 THEN SReturned("plot1d", EigvalshShape(r.shape))
        ELSE IF n = 2 THEN SReturned("plot2d", EigvalshShape(r.shape))
        ELSE SRaised(DimensionalityError)

\* spectrum after the call of line 145: an exception of hamiltonian_array
\* propagates, a result goes through lines 148-249
SpectrumReturn ==
    /\ entry = "spectrum"
    /\ pc \in {"returned", "raised"}
    /\ sresult' = IF pc = "raised" THEN SRaised(result.err)
                  ELSE SpectrumOutcome(result, return_energies)
    /\ pc' = "done"
    /\ UNCHANGED <<builderVars, poolVars, inputs, objs, pars, k_args, variables, points, idx,
                   hamiltonians, result>>

\* no call of hamiltonian_array or spectrum is under way
CallIdle ==
    /\ entry = "none"
    /\ syst = Bulk
    /\ p_in = <<>>
    /\ k_in = <<>>
    /\ return_energies = FALSE
    /\ objs = <<>>
    /\ pars = PRef
    /\ k_args = <<>>
    /\ variables = <<>>
    /\ points = <<>>
    /\ idx = 1
    /\ hamiltonians = <<>>
    /\ pc = "none"
    /\ result = NoResult
    /\ sresult = NoResult


----------------------------------------------------------------------------
(* Properties of hamiltonian_array and spectrum, checked under Spec *)

Finished == result.status # "none"
IsSeq(v) == v.kind = "seq"
Reserved == {"k_x", "k_y", "k_z"}
Leading(r) == SubSeq(r.shape, 1, Len(r.shape) - 2)
Trailing(r) == SubSeq(r.shape, Len(r.shape) - 1, Len(r.shape))
Ribbon == Len(syst.periods) = 1
NonZero(v) == \E i \in 1..Len(v.val) : v.val[i] # 0
SequenceReservedField == \E n \in DOMAIN p_in \cap Reserved : IsSeq(p_in[n])
EmptyAxis ==
    \/ \E n \in DOMAIN p_in : IsSeq(p_in[n]) /\ p_in[n].val = <<>>
    \/ \E i \in 1..3 : IsSeq(k_args[i]) /\ k_args[i].val = <<>>

\* m and k_x are sequences, every other field and momentum is a scalar
SweepsMAndKx ==
    /\ IsSeq(p_in["m"])
    /\ \A n \in DOMAIN p_in \ {"m"} : ~IsSeq(p_in[n])
    /\ IsSeq(k_args[1])
    /\ ~IsSeq(k_args[2])
    /\ ~IsSeq(k_args[3])

\* C1 as stated: with m of length L1 and k_x of length L2 swept, the array
\* hamiltonian_array returns has leading shape (L1, L2).
C1_LeadingShapeIsL1L2 ==
    (SweepsMAndKx /\ result.status = "ok") =>
        Leading(result) = <<Len(p_in["m"].val), Len(k_args[1].val)>>

\* C1 amended: with m (length L1) and k_x (length L2) swept, the returned
\* array has the axes in sorted-name order, k_x before m: leading shape
\* (L2, L1), followed by the two matrix axes; the call returns unless a
\* sequence is empty or a ribbon is given a nonzero k_y or k_z.
C1_LeadingShapeIsSortedL2L1 ==
    /\ (SweepsMAndKx /\ result.status = "ok") =>
          /\ Leading(result) = <<Len(k_args[1].val), Len(p_in["m"].val)>>
          /\ Trailing(result) = <<syst.norbs, syst.norbs>>
          /\ [j \in 1..Len(result.variables) |-> result.variables[j][1]] = <<"k_x", "m">>
    /\ (SweepsMAndKx /\ result.status = "raised") =>
          \/ EmptyAxis /\ result.err = IndexError
          \/ Ribbon /\ (NonZero(k_args[2]) \/ NonZero(k_args[3]))
                    /\ result.err = DomainError

C1_Witness ==
    /\ SweepsMAndKx
    /\ result.status = "ok"
    /\ Len(p_in["m"].val) # Len(k_args[1].val)

\* C2 as stated: a bundle with a field named k_x, k_y or k_z, scalar or
\* sequence, makes hamiltonian_array fail with the name-conflict error.
C2_AnyReservedFieldRaises ==
    (Finished /\ DOMAIN p_in \cap Reserved # {}) =>
        (result.status = "raised" /\ result.err = NameConflictError)

\* C2 amended: a bundle with a sequence-valued field named k_x, k_y or k_z
\* makes hamiltonian_array fail with the name-conflict error before any
\* matrix is evaluated; a scalar field under such a name raises no
\* name-conflict error.
C2_SequenceReservedFieldRaises ==
    /\ SequenceReservedField => hamiltonians = <<>>
    /\ (Finished /\ SequenceReservedField) =>
          (result.status = "raised" /\ result.err = NameConflictError)
    /\ result.err = NameConflictError => SequenceReservedField

C2_Witness ==
    /\ result.err = NameConflictError
    /\ "k_z" \in DOMAIN p_in
    /\ IsSeq(p_in["k_z"])

\* C3 as stated: on a ribbon every call with a nonzero k_y or k_z (scalar,
\* or a value of a swept sequence) fails with the over-specified-momentum
\* error.
C3_NonzeroExtraMomentumIsDomainError ==
    (Finished /\ Ribbon /\ (NonZero(k_args[2]) \/ NonZero(k_args[3]))) =>
        (result.status = "raised" /\ result.err = DomainError)

\* C3 amended: on a ribbon a call with a nonzero k_y or k_z never returns an
\* array, and fails with the over-specified-momentum error unless the
\* bundle has a sequence-valued field under a momentum name (name-conflict
\* error first) or a swept sequence is empty (no grid point is evaluated,
\* IndexError); a call that returns had k_y = k_z = 0 at every grid point
\* and passed k_x alone as the lattice momentum.
C3_NonzeroExtraMomentumNeverReturns ==
    /\ (Finished /\ Ribbon /\ (NonZero(k_args[2]) \/ NonZero(k_args[3]))) =>
          /\ result.status = "raised"
          /\ (~SequenceReservedField /\ ~EmptyAxis) => result.err = DomainError
    /\ (Ribbon /\ result.status = "ok") =>
          /\ ~NonZero(k_args[2])
          /\ ~NonZero(k_args[3])
          /\ \A i \in 1..Len(result.data) :
                /\ Len(result.data[i].k) = 1
                /\ \E j \in 1..Len(k_args[1].val) :
                      result.data[i].k[1] = k_args[1].val[j]

\* the error is raised at the second grid point, after a point with k_y = 0
C3_Witness ==
    /\ Ribbon
    /\ result.err = DomainError
    /\ IsSeq(k_args[2])
    /\ Len(hamiltonians) >= 1

\* C4 as stated, on the calls in which hamiltonian_array returned its grid:
\* spectrum with more than 2 swept axes is rejected with the dimensionality
\* error, whatever return_energies is.
C4_MoreThanTwoAxesIsDimensionalityError ==
    (entry = "spectrum" /\ pc = "done" /\ result.status = "ok"
        /\ Len(result.variables) > 2) =>
        (sresult.status = "raised" /\ sresult.err = DimensionalityError)

\* no field of the bundle and no momentum spectrum passes on is a sequence
ZeroSwept ==
    /\ \A n \in DOMAIN p_in : ~IsSeq(p_in[n])
    /\ \A i \in 1..3 : ~IsSeq(k_args[i])

\* C5 as stated: spectrum with 0 swept axes completes without error.
C5_ZeroAxesCompletes ==
    (entry = "spectrum" /\ pc = "done" /\ ZeroSwept) => sresult.status = "ok"

\* C5 amended: spectrum with 0 swept axes is rejected with the error
\* "A 0D plot requested"; with 1 or 2 swept axes it completes and yields the
\* eigenvalues (or their plot) over the grid.
C5_ZeroAxesRejected ==
    (entry = "spectrum" /\ pc = "done") =>
        /\ ZeroSwept => (sresult.status = "raised" /\ sresult.err = ZeroDError)
        /\ (result.status = "ok" /\ Len(result.variables) \in {1, 2}) =>
              /\ sresult.status = "ok"
              /\ sresult.shape = Leading(result) \o <<syst.norbs>>
              /\ return_energies => sresult.kind = "energies"

C5_Witness ==
    /\ entry = "spectrum"
    /\ pc = "done"
    /\ ZeroSwept
    /\ sresult.err = ZeroDError

\* C7: hamiltonian_array leaves every field of the caller's bundle as it
\* was, in every state of the call and after it, returned or raised.
C7_BundleUnchanged == objs[PRef] = p_in

\* a swept field of the copy was overwritten by grid points; the call returned
C7_Witness ==
    /\ result.status = "ok"
    /\ Len(points) >= 2
    /\ IsSeq(p_in["m"])
    /\ ~IsSeq(objs[pars]["m"])
    /\ pars # PRef


(* C10: the grid of hamiltonian_array against the axes taken alphabetically *)

AlphabeticalNames == <<"k_x", "k_y", "k_z", "m", "t">>

\* the value the call was given under a name
GivenValue(n) ==
    IF IndexOf(MomentumNames, n) # 0 THEN k_args[IndexOf(MomentumNames, n)]
    ELSE p_in[n]

SweptAxes == SelectSeq(AlphabeticalNames, LAMBDA n : IsSeq(GivenValue(n)))
AxisLengths == [j \in 1..Len(SweptAxes) |-> Len(GivenValue(SweptAxes[j]).val)]

RECURSIVE SeqProduct(_)
SeqProduct(s) == IF s = <<>> THEN 1 ELSE Head(s) * SeqProduct(Tail(s))

RECURSIVE SeqMax(_)
SeqMax(s) ==
    IF s = <<>> THEN 0
    ELSE IF Head(s) > SeqMax(Tail(s)) THEN Head(s) ELSE SeqMax(Tail(s))

\* the multi-indices (i1, ..., in) of an array of the given leading shape
MultiIndices(dims) ==
    {mi \in [1..Len(dims) -> 1..SeqMax(dims)] : \A j \in 1..Len(dims) : mi[j] <= dims[j]}

\* position of a multi-index in the flat, row-major data of a reshaped array
RECURSIVE FlatIndex(_, _)
FlatIndex(mi, dims) ==
    IF dims = <<>> THEN 1
    ELSE (Head(mi) - 1) * SeqProduct(Tail(dims)) + FlatIndex(Tail(mi), Tail(dims))

\* the number a name stands for at a multi-index
ValueAt(n, mi) ==
    IF IndexOf(SweptAxes, n) # 0
    THEN GivenValue(n).val[mi[IndexOf(SweptAxes, n)]]
    ELSE GivenValue(n).val[1]

\* the Hamiltonian with the j-th alphabetical axis at its mi[j]-th value
HamiltonianAt(mi) ==
    [m |-> Scalar(ValueAt("m", mi)),
     t |-> Scalar(ValueAt("t", mi)),
     k |-> MomentumToLattice(syst, <<ValueAt("k_x", mi), ValueAt("k_y", mi),
                                     ValueAt("k_z", mi)>>).k]

\* C10: when hamiltonian_array returns a swept grid, its leading shape is the
\* list of the axes' lengths in alphabetical order of their names, and the
\* matrix at multi-index (i1, ..., in) is the Hamiltonian with the j-th
\* alphabetical axis at its i_j-th value; one swept parameter of length L
\* gives a leading axis of length L.
C10_GridFollowsAlphabeticalAxes ==
    (result.status = "ok" /\ result.variables # <<>>) =>
        /\ [j \in 1..Len(result.variables) |-> result.variables[j][1]] = SweptAxes
        /\ Leading(result) = AxisLengths
        /\ Len(result.data) = SeqProduct(AxisLengths)
        /\ \A mi \in MultiIndices(AxisLengths) :
              result.data[FlatIndex(mi, AxisLengths)] = HamiltonianAt(mi)
        /\ (Len(SweptAxes) = 1 /\ SweptAxes[1] \in {"m", "t"}) =>
              Leading(result) = <<Len(p_in[SweptAxes[1]].val)>>

\* a returned grid over a momentum and a parameter, both with several values
C10_Witness ==
    /\ result.status = "ok"
    /\ Len(result.variables) >= 2
    /\ IsSeq(k_args[1])
    /\ IsSeq(p_in["m"])
    /\ Len(k_args[1].val) >= 2
    /\ Len(p_in["m"].val) >= 2
    /\ result.data[2] # result.data[1 + Len(p_in["m"].val)]


----------------------------------------------------------------------------
(* haldaneModel: the checks of lines 42-48, then the lattice and the       *)
(* builder.  Vectors are in units of (1/2, sqrt(3)/2).                     *)

\* Most primitive vectors, and most basis atoms, drawn as an input.
MaxVecs == 2

VecChoices == {<<2>>, <<2, 0>>, <<1, 1>>, <<2, 0, 0>>}
AtomChoices == {<<0>>, <<0, 0>>, <<0, 1>>, <<0, 0, 1>>}
Boundaries == {"zigzag", "armchair", "infinite"}

SeqsUpTo(S, n) == UNION {[1..l -> S] : l \in 0..n}

ValidationError == "ValueError: haldane model must be 2D"
LatticeError == "ValueError: kwant.lattice.general"
UnpackError == "ValueError: a, b = lat.sublattices"

NoLattice == [made |-> FALSE, prim_vecs |-> <<>>, basis |-> <<>>]
NoBuilder == [made |-> FALSE, periods |-> <<>>]

\* a coordinate with fewer than 2 components only
BadCoordinateShort(v) == Len(v) < 2

\* len(pVecs[iVec]) != 2, len(bAtoms[iAtomCoord]) != 2
BadCoordinate(v) == Len(v) # 2

\* kwant.lattice.general refuses no or too many primitive vectors, vectors
\* that are linearly dependent, and an empty basis
LatticeRefused(pv, ba) ==
    \/ Len(pv) = 0
    \/ Len(pv) > 2
    \/ Len(ba) = 0
    \/ Len(pv) = 2 /\ pv[1][1] * pv[2][2] - pv[1][2] * pv[2][1] = 0

BuilderInit ==
    /\ boundary \in Boundaries
    /\ pVecs \in SeqsUpTo(VecChoices, MaxVecs)
    /\ bAtoms \in SeqsUpTo(AtomChoices, MaxVecs)
    /\ hm_pc = "pVecs"
    /\ hm_i = 1
    /\ lat = NoLattice
    /\ builder = NoBuilder
    /\ hm_err = ""

BuilderIdle ==
    /\ boundary = "infinite"
    /\ pVecs = <<>>
    /\ bAtoms = <<>>
    /\ hm_pc = "none"
    /\ hm_i = 1
    /\ lat = NoLattice
    /\ builder = NoBuilder
    /\ hm_err = ""

\* lines 42-44, one pass of the loop (or its end)
CheckPVec ==
    /\ hm_pc = "pVecs"
    /\ IF hm_i > Len(pVecs)
       THEN hm_pc' = "bAtoms" /\ hm_i' = 1 /\ UNCHANGED hm_err
       ELSE IF BadCoordinate(pVecs[hm_i])
            THEN hm_pc' = "raised" /\ hm_err' = ValidationError /\ UNCHANGED hm_i
            ELSE hm_i' = hm_i + 1 /\ UNCHANGED <<hm_pc, hm_err>>
    /\ UNCHANGED <<callVars, poolVars, boundary, pVecs, bAtoms, lat, builder>>

\* lines 46-48, one pass of the loop (or its end)
CheckBAtom ==
    /\ hm_pc = "bAtoms"
    /\ IF hm_i > Len(bAtoms)
       THEN hm_pc' = "lattice" /\ hm_i' = 1 /\ UNCHANGED hm_err
       ELSE IF BadCoordinate(bAtoms[hm_i])
            THEN hm_pc' = "raised" /\ hm_err' = ValidationError /\ UNCHANGED hm_i
            ELSE hm_i' = hm_i + 1 /\ UNCHANGED <<hm_pc, hm_err>>
    /\ UNCHANGED <<callVars, poolVars, boundary, pVecs, bAtoms, lat, builder>>

\* lines 72-73: the lattice and its two sublattices
MakeLattice ==
    /\ hm_pc = "lattice"
    /\ IF LatticeRefused(pVecs, bAtoms)
       THEN hm_pc' = "raised" /\ hm_err' = LatticeError /\ UNCHANGED lat
       ELSE /\ lat' = [made |-> TRUE, prim_vecs |-> pVecs, basis |-> bAtoms]
            /\ IF Len(bAtoms) # 2
               THEN hm_pc' = "raised" /\ hm_err' = UnpackError
               ELSE hm_pc' = "builder" /\ UNCHANGED hm_err
    /\ UNCHANGED <<callVars, poolVars, boundary, pVecs, bAtoms, hm_i, builder>>

\* lines 79-95: the builder with the symmetry the boundary keeps
MakeBuilder ==
    /\ hm_pc = "builder"
    /\ builder' = [made |-> TRUE,
                   periods |-> IF boundary = "zigzag" THEN << <<2, 0>> >>
                               ELSE IF boundary = "armchair" THEN << <<0, 2>> >>
                               ELSE lat.prim_vecs]
    /\ hm_pc' = "returned"
    /\ UNCHANGED <<callVars, poolVars, boundary, pVecs, bAtoms, hm_i, lat, hm_err>>

BadGeometry ==
    \/ \E i \in 1..Len(pVecs) : Len(pVecs[i]) # 2
    \/ \E i \in 1..Len(bAtoms) : Len(bAtoms[i]) # 2

\* C6: haldaneModel raises the validation error, with no lattice and no
\* builder made, when some primitive vector or basis coordinate does not
\* have exactly 2 components; when all have 2 components the checks raise
\* nothing and the construction is reached, whatever the boundary.
C6_ValidationBeforeConstruction ==
    /\ BadGeometry =>
          /\ ~lat.made
          /\ ~builder.made
          /\ hm_pc \in {"pVecs", "bAtoms", "raised"}
          /\ hm_pc = "raised" => hm_err = ValidationError
    /\ ~BadGeometry =>
          /\ hm_err # ValidationError
          /\ hm_pc = "raised" => hm_err \in {LatticeError, UnpackError}
    /\ hm_err = ValidationError => hm_pc = "raised"

\* the primitive vectors passed, a basis coordinate with 3 components did not
C6_Witness ==
    /\ hm_pc = "raised"
    /\ hm_err = ValidationError
    /\ \A i \in 1..Len(pVecs) : Len(pVecs[i]) = 2
    /\ Len(pVecs) = 2
    /\ \E i \in 1..Len(bAtoms) : Len(bAtoms[i]) = 3


----------------------------------------------------------------------------
(* The sweep scripts: pool.map(paralelFunc, mus), pool.close(), pool.join() *)

\* Most onsite energies in a sweep (muResolution).
NumMus == 3
\* Longest momentum grid (kResolution).
KRes == 5
\* Processes of the pool.
Cpus == 2

Workers == 1..Cpus

\* the axis taken whole
SliceLenWhole(n) == n

\* len(a[1:-1]) of an axis of length n
SliceLen(n) == IF n >= 2 THEN n - 2 ELSE 0

\* a[1:-1, 1:-1] of an array of the given shape
InteriorSlice(shape) ==
    <<SliceLen(shape[1]), SliceLen(shape[2])>> \o SubSeq(shape, 3, Len(shape))

\* shape of berryCurvature(syst, p, k) over a k_x grid of nx and a k_y grid
\* of ny points: interior points only
BerryCurvature(nx, ny, nb) == <<nx - 2, ny - 2, nb>>

\* shape of spectrum(infiniteSystem, p, k_x=k, k_y=k, return_energies=True)
BandEnergies(n) == EigvalshShape(<<n, n>> \o MatrixShape(Bulk))

\* shape of [[data[j][i][b] for i in index1] for j in index2]
BandArray(shape) == <<shape[2], shape[1]>>

\* a file name that does not depend on the onsite energy
FileNameFixed(imu) == <<"mu", 0, ".txt">>

\* 'mu{imu}.txt'.format(imu=imu)
FileName(imu) == <<"mu", imu, ".txt">>

\* the directories a script writes into
Directories(pl) == IF pl = "bands" THEN <<"pos", "neg">> ELSE <<"berry">>

PoolInit ==
    /\ pipeline \in {"bands", "berry"}
    /\ mus \in {Linspace(n).val : n \in 1..NumMus}
    /\ kres \in {n \in 1..KRes : n >= 3}
    /\ main_pc = "map"
    /\ tasks = <<>>
    /\ wpc = [w \in Workers |-> "idle"]
    /\ wtask = [w \in Workers |-> 0]
    /\ wdata = [w \in Workers |-> <<>>]
    /\ completed = {}
    /\ files = <<>>
    /\ writes = {}

PoolIdle ==
    /\ pipeline = "none"
    /\ mus = <<>>
    /\ kres = 0
    /\ main_pc = "none"
    /\ tasks = <<>>
    /\ wpc = <<>>
    /\ wtask = <<>>
    /\ wdata = <<>>
    /\ completed = {}
    /\ files = <<>>
    /\ writes = {}

\* pool.map hands the positions of mus to the pool
PoolMap ==
    /\ main_pc = "map"
    /\ tasks' = [i \in 1..Len(mus) |-> i]
    /\ main_pc' = "map_wait"
    /\ UNCHANGED <<callVars, builderVars, pipeline, mus, kres, wpc, wtask, wdata,
                   completed, files, writes>>

\* an idle pool process takes the next value
WorkerTake(w) ==
    /\ main_pc = "map_wait"
    /\ wpc[w] = "idle"
    /\ tasks # <<>>
    /\ wtask' = [wtask EXCEPT ![w] = Head(tasks)]
    /\ tasks' = Tail(tasks)
    /\ wpc' = [wpc EXCEPT ![w] = "compute"]
    /\ UNCHANGED <<callVars, builderVars, pipeline, mus, kres, main_pc, wdata,
                   completed, files, writes>>

\* paralelFunc up to its array: graphineHaldaneModel.py 56-59, berryCurve.py 50-53
WorkerCompute(w) ==
    /\ wpc[w] = "compute"
    /\ wdata' = [wdata EXCEPT ![w] =
                    IF pipeline = "bands" THEN BandEnergies(kres)
                    ELSE InteriorSlice(BerryCurvature(kres, kres, Bulk.norbs))]
    /\ wpc' = [wpc EXCEPT ![w] = "write1"]
    /\ UNCHANGED <<callVars, builderVars, pipeline, mus, kres, main_pc, tasks, wtask,
                   completed, files, writes>>

\* np.savetxt(fname1, ...)
WorkerWrite1(w) ==
    /\ wpc[w] = "write1"
    /\ LET path == <<Directories(pipeline)[1], FileName(mus[wtask[w]])>>
           array == IF pipeline = "bands" THEN BandArray(wdata[w]) ELSE wdata[w]
       IN  /\ files' = (path :> array) @@ files
           /\ writes' = writes \cup {<<wtask[w], path>>}
    /\ IF pipeline = "bands"
       THEN wpc' = [wpc EXCEPT ![w] = "write2"] /\ UNCHANGED completed
       ELSE /\ wpc' = [wpc EXCEPT ![w] = "idle"]
            /\ completed' = completed \cup {wtask[w]}
    /\ UNCHANGED <<callVars, builderVars, pipeline, mus, kres, main_pc, tasks, wtask,
                   wdata>>

\* np.savetxt(fname2, func2), graphineHaldaneModel.py only
WorkerWrite2(w) ==
    /\ wpc[w] = "write2"
    /\ LET path == <<Directories(pipeline)[2], FileName(mus[wtask[w]])>>
       IN  /\ files' = (path :> BandArray(wdata[w])) @@ files
           /\ writes' = writes \cup {<<wtask[w], path>>}
    /\ wpc' = [wpc EXCEPT ![w] = "idle"]
    /\ completed' = completed \cup {wtask[w]}
    /\ UNCHANGED <<callVars, builderVars, pipeline, mus, kres, main_pc, tasks, wtask,
                   wdata>>

\* pool.map returns when every call has returned
MapReturn ==
    /\ main_pc = "map_wait"
    /\ completed = 1..Len(mus)
    /\ main_pc' = "close"
    /\ UNCHANGED <<callVars, builderVars, pipeline, mus, kres, tasks, wpc, wtask,
                   wdata, completed, files, writes>>

PoolClose ==
    /\ main_pc = "close"
    /\ main_pc' = "join"
    /\ UNCHANGED <<callVars, builderVars, pipeline, mus, kres, tasks, wpc, wtask,
                   wdata, completed, files, writes>>

\* pool.join() returns when the pool processes have exited
PoolJoin ==
    /\ main_pc = "join"
    /\ \A w \in Workers : wpc[w] = "idle"
    /\ main_pc' = "joined"
    /\ UNCHANGED <<callVars, builderVars, pipeline, mus, kres, tasks, wpc, wtask,
                   wdata, completed, files, writes>>

----------------------------------------------------------------------------
(* Specifications *)

Init == CallInit /\ BuilderIdle /\ PoolIdle

Next ==
    \/ SpectrumCall
    \/ HamiltonianArrayBegin
    \/ HamiltonianPoint
    \/ HamiltonianArrayEnd
    \/ SpectrumReturn

\* one call of hamiltonian_array or of spectrum
Spec == Init /\ [][Next]_vars

BuilderNext ==
    \/ CheckPVec
    \/ CheckBAtom
    \/ MakeLattice
    \/ MakeBuilder

\* one call of haldaneModel
InitBuilder == CallIdle /\ BuilderInit /\ PoolIdle

SpecBuilder == InitBuilder /\ [][BuilderNext]_vars

PoolNext ==
    \/ PoolMap
    \/ \E w \in Workers : WorkerTake(w)
    \/ \E w \in Workers : WorkerCompute(w)
    \/ \E w \in Workers : WorkerWrite1(w)
    \/ \E w \in Workers : WorkerWrite2(w)
    \/ MapReturn
    \/ PoolClose
    \/ PoolJoin

\* one run of a sweep script
InitPool == CallIdle /\ BuilderIdle /\ PoolInit

SpecPool == InitPool /\ [][PoolNext]_vars

----------------------------------------------------------------------------
(* Properties of the sweep scripts, checked under SpecPool *)

FilesIn(dir) == {path \in DOMAIN files : path[1] = dir}
DistinctFiles ==
    \A a \in writes : \A b \in writes : a[1] # b[1] => a[2] # b[2]

\* C8 as stated: the calls of paralelFunc write to pairwise distinct files,
\* and once the pool is joined exactly N files exist for N onsite energies.
C8_ExactlyNFiles ==
    /\ DistinctFiles
    /\ main_pc = "joined" => Cardinality(DOMAIN files) = Len(mus)

\* C8 amended: the calls of paralelFunc write to pairwise distinct files,
\* and once the pool is joined each output directory of the script holds
\* exactly N files, one per onsite energy: N files in berry/ for
\* berryCurve.py, N in pos/ and N in neg/ (2N files) for
\* graphineHaldaneModel.py.
C8_NFilesPerDirectory ==
    /\ DistinctFiles
    /\ main_pc = "joined" =>
          /\ \A j \in 1..Len(Directories(pipeline)) :
                /\ Cardinality(FilesIn(Directories(pipeline)[j])) = Len(mus)
                /\ \A i \in 1..Len(mus) :
                      \E path \in FilesIn(Directories(pipeline)[j]) :
                          /\ path[2][2] = mus[i]
                          /\ <<i, path>> \in writes
          /\ Cardinality(DOMAIN files) = Len(mus) * Len(Directories(pipeline))

C8_Witness ==
    /\ main_pc = "joined"
    /\ pipeline = "bands"
    /\ Len(mus) >= 3
    /\ Cardinality(DOMAIN files) = 2 * Len(mus)

Max0(n) == IF n > 0 THEN n ELSE 0

====
